---- MODULE Spec2Model ----
(***************************************************************************)
(* Model of src-tauri/src/lib.rs: the ModelManager (worker slot, loaded    *)
(* model id, catalog), the six Tauri commands that run under the           *)
(* Mutex<ModelManager>, the reader thread spawned for every worker, and    *)
(* the worker process itself (an external program: it writes lines to its  *)
(* two output pipes and exits, or is killed).                              *)
(*                                                                         *)
(* Worker output is modelled as text lines: the k-th line a worker writes  *)
(* to a stream has text k.                                                 *)
(*                                                                         *)
(* Two specifications share the actions.  Spec is the manager under every  *)
(* command, with workers that print nothing before they end.  StreamSpec   *)
(* is the output path: workers that print on both streams into pipes of    *)
(* bounded capacity, under start_model and stop_model.                     *)
(***************************************************************************)
EXTENDS Integers, Sequences, FiniteSets, TLC

\* Bounds of the model.
MaxWorkers    == 2  \* processes the OS lets the manager spawn in one run
StreamWorkers == 1  \* workers started in one run of StreamSpec
MaxLines      == 2  \* lines written by all workers together in one run
PipeCap       == 1  \* lines an OS pipe holds before a write blocks

None    == "None"   \* Option::None
NoChild == 0        \* ModelManager.process = None

\* Model ids the front end may pass: two catalogued ones and an unknown one.
IdInputs == {"alpha", "beta", "ghost"}
Prompts  == {"hello"}

\* Content of ./models, in read_dir order.
ModelsDir ==
  << [file_name |-> "alpha.gguf", file_stem |-> "alpha", extension |-> "gguf", kind |-> "file"],
     [file_name |-> "beta",       file_stem |-> "beta",  extension |-> None,   kind |-> "dir"],
     [file_name |-> "notes.txt",  file_stem |-> "notes", extension |-> "txt",  kind |-> "file"] >>

VARIABLES
  process,    \* ModelManager.process: NoChild or the handle of the child in the slot
  loaded,     \* ModelManager.loaded: None or a model id
  models,     \* ModelManager.models: id -> ModelInfo
  children,   \* every process spawned so far, by handle 1..Len(children)
  events,     \* notifications emitted on the window, in emission order
  inflight,   \* None, or the command that holds the mutex inside spawn_for_model,
              \* after thread::spawn and before its window.emit
  ret         \* the command that returned last and its result

vars == <<process, loaded, models, children, events, inflight, ret>>

Handles == 1..Len(children)

----------------------------------------------------------------------------
\* ModelManager: catalog

ModelInfo(id, name, path) == [id |-> id, name |-> name, path |-> path, loaded |-> FALSE]

insert(m, k, v) == [x \in (DOMAIN m) \cup {k} |-> IF x = k THEN v ELSE m[x]]

scan_entry(m, p) ==
  IF p.kind = "file"
  THEN IF p.extension \in {"gguf", "bin", "pt"}
       THEN insert(m, p.file_stem, ModelInfo(p.file_stem, p.file_name, <<"./models", p.file_name>>))
       ELSE m
  ELSE IF p.kind = "dir"
       THEN insert(m, p.file_name, ModelInfo(p.file_name, p.file_name, <<"./models", p.file_name>>))
       ELSE m

RECURSIVE scan_entries(_, _)
scan_entries(m, entries) ==
  IF entries = <<>> THEN m
  ELSE scan_entries(scan_entry(m, Head(entries)), Tail(entries))

\* self.models.clear(), then one insert per recognised entry
scan_models == scan_entries(<<>>, ModelsDir)

\* set_loaded that records the id without looking it up in the catalog.
set_loaded_unchecked(mods, ld, id) ==
  [models |-> IF id \in DOMAIN mods THEN [mods EXCEPT ![id].loaded = TRUE] ELSE mods,
   loaded |-> id]

set_loaded(mods, ld, id) ==
  IF id \in DOMAIN mods
  THEN [models |-> [mods EXCEPT ![id].loaded = TRUE], loaded |-> id]
  ELSE [models |-> mods, loaded |-> ld]

clear_loaded(mods, ld) ==
  [models |-> IF ld # None /\ ld \in DOMAIN mods
              THEN [mods EXCEPT ![ld].loaded = FALSE] ELSE mods,
   loaded |-> None]

----------------------------------------------------------------------------
\* Notifications

OutputEvent(w, prefix, line) ==
  [ev |-> "model-output", w |-> w, payload |-> [prefix |-> prefix, line |-> line]]

StatusEvent(w, running) ==
  [ev |-> "model-status", w |-> w, payload |-> [running |-> running]]

----------------------------------------------------------------------------
\* ModelManager: worker slot

\* spawn_guard without the check of the slot.
spawn_guard_no_slot_check(proc, mods, id) ==
  IF id \notin DOMAIN mods THEN "NotFound" ELSE "Spawn"

\* spawn_guard with the catalog lookup before the check of the slot.
spawn_guard_lookup_first(proc, mods, id) ==
  IF id \notin DOMAIN mods THEN "NotFound"
  ELSE IF proc # NoChild THEN "AlreadyRunning"
  ELSE "Spawn"

\* spawn_guard without the catalog lookup: an unknown id runs the fallback.
spawn_guard_no_lookup(proc, mods, id) ==
  IF proc # NoChild THEN "AlreadyRunning" ELSE "Spawn"

\* The two early returns of spawn_for_model, in the order the code takes them.
spawn_guard(proc, mods, id) ==
  IF proc # NoChild THEN "AlreadyRunning"
  ELSE IF id \notin DOMAIN mods THEN "NotFound"
  ELSE "Spawn"

alive(c) == c.status = "running"

\* store_child that also records the started model as loaded.
store_child_and_load(h, id, ld) == [process |-> h, loaded |-> id]

\* self.process = Some(child): the slot takes the handle, nothing else of
\* the manager changes.
store_child(h, id, ld) == [process |-> h, loaded |-> ld]

\* The Child that c.spawn() returns: stdout and stderr are piped, stdin is
\* never configured, so child.stdin is None.
new_child ==
  [status |-> "running",
   wants  |-> "none",
   stdout |-> <<>>, stderr |-> <<>>,
   nout   |-> 0, nerr |-> 0,
   stdin  |-> [piped |-> FALSE, buf |-> <<>>],
   reader |-> "stdout"]

Result(cmd, res) == [cmd |-> cmd, res |-> res]

\* spawn_for_model up to and including thread::spawn.  On success the
\* command stays inside the mutex until emit_running.
spawn_for_model(cmd, id) ==
  LET g == spawn_guard(process, models, id) IN
  IF g # "Spawn"
  THEN /\ ret' = Result(cmd, g)
       /\ UNCHANGED <<process, loaded, models, children, events, inflight>>
  ELSE \E osOk \in BOOLEAN :
         IF osOk /\ Len(children) < MaxWorkers
         THEN LET r == store_child(Len(children) + 1, id, loaded) IN
              /\ children' = Append(children, new_child)
              /\ process' = r.process
              /\ loaded' = r.loaded
              /\ inflight' = cmd
              /\ UNCHANGED <<models, events, ret>>
         ELSE /\ ret' = Result(cmd, "SpawnFailed")
              /\ UNCHANGED <<process, loaded, models, children, events, inflight>>

\* window.emit("model-status", {"running": true}); Ok(())
emit_running ==
  /\ inflight # None
  /\ events' = Append(events, StatusEvent(process, TRUE))
  /\ ret' = Result(inflight, "Ok")
  /\ inflight' = None
  /\ UNCHANGED <<process, loaded, models, children>>

\* stop_process that looks at the slot (as_mut) instead of taking from it.
stop_process_keeps_slot(proc, killOk) ==
  IF proc # NoChild
  THEN [process |-> proc, killed |-> killOk,
        res |-> IF killOk THEN "Ok" ELSE "KillFailed"]
  ELSE [process |-> proc, killed |-> FALSE, res |-> "NotRunning"]

\* stop_process that treats an empty slot as already stopped.
stop_process_idempotent(proc, killOk) ==
  IF proc # NoChild
  THEN [process |-> NoChild, killed |-> killOk,
        res |-> IF killOk THEN "Ok" ELSE "KillFailed"]
  ELSE [process |-> proc, killed |-> FALSE, res |-> "Ok"]

\* stop_process that puts the child back in the slot when kill() fails.
stop_process_restores_on_error(proc, killOk) ==
  IF proc # NoChild
  THEN [process |-> IF killOk THEN NoChild ELSE proc, killed |-> killOk,
        res |-> IF killOk THEN "Ok" ELSE "KillFailed"]
  ELSE [process |-> proc, killed |-> FALSE, res |-> "NotRunning"]

\* stop_process: take() empties the slot before kill() is tried.
stop_process(proc, killOk) ==
  IF proc # NoChild
  THEN [process |-> NoChild, killed |-> killOk,
        res |-> IF killOk THEN "Ok" ELSE "KillFailed"]
  ELSE [process |-> proc, killed |-> FALSE, res |-> "NotRunning"]

\* A process that ended (how: "exited" by itself, "killed" by child.kill()):
\* its pending write is gone and the write ends of its pipes are closed.
dead(c, how) == [c EXCEPT !.status = how, !.wants = "none"]

----------------------------------------------------------------------------
\* Tauri commands (each locks the manager for its whole body)

list_models ==
  /\ inflight = None
  /\ ret' = Result("list_models", "Ok")
  /\ UNCHANGED <<process, loaded, models, children, events, inflight>>

rescan_models ==
  /\ inflight = None
  /\ models' = scan_models
  /\ ret' = Result("rescan_models", "Ok")
  /\ UNCHANGED <<process, loaded, children, events, inflight>>

load_model(id) ==
  /\ inflight = None
  /\ LET r == set_loaded(models, loaded, id) IN
       /\ models' = r.models
       /\ loaded' = r.loaded
  /\ ret' = Result("load_model", "Ok")
  /\ UNCHANGED <<process, children, events, inflight>>

start_model(id) ==
  /\ inflight = None
  /\ spawn_for_model("start_model", id)

stop_model ==
  /\ inflight = None
  /\ \E killOk \in BOOLEAN :
       LET r == stop_process(process, killOk) IN
         /\ process' = r.process
         /\ children' = IF r.killed /\ alive(children[process])
                        THEN [children EXCEPT ![process] = dead(@, "killed")]
                        ELSE children
         /\ ret' = Result("stop_model", r.res)
  /\ UNCHANGED <<loaded, models, events, inflight>>

\* prompt_target that falls back to a catalogued model.
prompt_target_default(model, ld) ==
  IF model # None THEN model ELSE IF ld # None THEN ld ELSE "alpha"

\* prompt_target that prefers the loaded id to the override.
prompt_target_loaded_first(model, ld) == IF ld # None THEN ld ELSE model

\* model.or(mgr.loaded.clone())
prompt_target(model, ld) == IF model # None THEN model ELSE ld

run_prompt(prompt, model) ==
  /\ inflight = None
  /\ IF process # NoChild /\ children[process].stdin.piped
     THEN \* writeln!(stdin, "{}", prompt)
          /\ IF alive(children[process])
             THEN /\ children' = [children EXCEPT ![process].stdin.buf = Append(@, prompt)]
                  /\ ret' = Result("run_prompt", "Sent")
             ELSE /\ ret' = Result("run_prompt", "WriteFailed")
                  /\ UNCHANGED children
          /\ UNCHANGED <<process, loaded, models, events, inflight>>
     ELSE LET id == prompt_target(model, loaded) IN
          IF id # None
          THEN spawn_for_model("run_prompt", id)
          ELSE /\ ret' = Result("run_prompt", "NoModelAvailable")
               /\ UNCHANGED <<process, loaded, models, children, events, inflight>>

----------------------------------------------------------------------------
\* The worker process (environment)

LinesWritten(cs) ==
  LET RECURSIVE sum(_)
      sum(i) == IF i = 0 THEN 0
                ELSE sum(i - 1) + cs[i].nout + cs[i].nerr
                     + (IF cs[i].wants = "none" THEN 0 ELSE 1)
  IN sum(Len(cs))

\* The worker calls write() on one of its output streams.
worker_write(w, s) ==
  /\ alive(children[w])
  /\ children[w].wants = "none"
  /\ LinesWritten(children) < MaxLines
  /\ children' = [children EXCEPT ![w].wants = s]
  /\ UNCHANGED <<process, loaded, models, events, inflight, ret>>

\* The write returns once the pipe has room for the line.
worker_written(w) ==
  /\ alive(children[w])
  /\ \/ /\ children[w].wants = "stdout"
        /\ Len(children[w].stdout) < PipeCap
        /\ children' = [children EXCEPT ![w].wants = "none",
                                        ![w].nout = @ + 1,
                                        ![w].stdout = Append(@, children[w].nout + 1)]
     \/ /\ children[w].wants = "stderr"
        /\ Len(children[w].stderr) < PipeCap
        /\ children' = [children EXCEPT ![w].wants = "none",
                                        ![w].nerr = @ + 1,
                                        ![w].stderr = Append(@, children[w].nerr + 1)]
  /\ UNCHANGED <<process, loaded, models, events, inflight, ret>>

\* The worker exits by itself.
worker_exit(w) ==
  /\ alive(children[w])
  /\ children[w].wants = "none"
  /\ children' = [children EXCEPT ![w] = dead(@, "exited")]
  /\ UNCHANGED <<process, loaded, models, events, inflight, ret>>

----------------------------------------------------------------------------
\* The reader thread of worker w

\* One step of the thread on child c: the child afterwards and what is
\* emitted (<<>> when nothing is).  Not defined (blocked) when the stream
\* being read is empty and still open.
reader_blocked(c) ==
  \/ c.reader = "done"
  \/ c.reader = "stdout" /\ c.stdout = <<>> /\ alive(c)
  \/ c.reader = "stderr" /\ c.stderr = <<>> /\ alive(c)

\* reader_step that reports the stop as soon as stdout is closed.
reader_step_stop_after_stdout(w, c) ==
  IF c.reader = "stdout"
  THEN IF c.stdout # <<>>
       THEN [child |-> [c EXCEPT !.stdout = Tail(@)],
             emit  |-> <<OutputEvent(w, "", Head(c.stdout))>>]
       ELSE [child |-> [c EXCEPT !.reader = "stderr"],
             emit  |-> <<StatusEvent(w, FALSE)>>]
  ELSE IF c.stderr # <<>>
       THEN [child |-> [c EXCEPT !.stderr = Tail(@)],
             emit  |-> <<OutputEvent(w, "[ERR] ", Head(c.stderr))>>]
       ELSE [child |-> [c EXCEPT !.reader = "done"], emit |-> <<>>]

reader_step(w, c) ==
  IF c.reader = "stdout"
  THEN IF c.stdout # <<>>
       THEN [child |-> [c EXCEPT !.stdout = Tail(@)],
             emit  |-> <<OutputEvent(w, "", Head(c.stdout))>>]
       ELSE [child |-> [c EXCEPT !.reader = "stderr"], emit |-> <<>>]
  ELSE IF c.stderr # <<>>
       THEN [child |-> [c EXCEPT !.stderr = Tail(@)],
             emit  |-> <<OutputEvent(w, "[ERR] ", Head(c.stderr))>>]
       ELSE [child |-> [c EXCEPT !.reader = "done"],
             emit  |-> <<StatusEvent(w, FALSE)>>]

reader_thread(w) ==
  /\ ~reader_blocked(children[w])
  /\ LET r == reader_step(w, children[w]) IN
       /\ children' = [children EXCEPT ![w] = r.child]
       /\ events' = events \o r.emit
  /\ UNCHANGED <<process, loaded, models, inflight, ret>>

----------------------------------------------------------------------------

Init ==
  /\ process = NoChild
  /\ loaded = None
  /\ models = scan_models
  /\ children = <<>>
  /\ events = <<>>
  /\ inflight = None
  /\ ret = Result("none", "none")

\* The manager under every command; workers end without printing.
Next ==
  \/ list_models
  \/ rescan_models
  \/ \E id \in IdInputs : load_model(id)
  \/ \E id \in IdInputs : start_model(id)
  \/ stop_model
  \/ \E p \in Prompts, m \in IdInputs \cup {None} : run_prompt(p, m)
  \/ emit_running
  \/ \E w \in Handles : worker_exit(w)
  \/ \E w \in Handles : reader_thread(w)

Spec == Init /\ [][Next]_vars

\* The output path: workers that print, started and stopped by command.
StreamNext ==
  \/ \E id \in DOMAIN models : Len(children) < StreamWorkers /\ start_model(id)
  \/ stop_model
  \/ emit_running
  \/ \E w \in Handles : worker_write(w, "stdout")
  \/ \E w \in Handles : worker_write(w, "stderr")
  \/ \E w \in Handles : worker_written(w)
  \/ \E w \in Handles : worker_exit(w)
  \/ \E w \in Handles : reader_thread(w)

StreamSpec == Init /\ [][StreamNext]_vars

\* Threads and processes that can run do run: a reader thread takes its next
\* step, a command thread past thread::spawn emits, a write returns once the
\* pipe has room, and a worker that is not inside a write ends at some point.
StreamFairSpec ==
  /\ StreamSpec
  /\ \A w \in 1..StreamWorkers : WF_vars(w \in Handles /\ reader_thread(w))
  /\ \A w \in 1..StreamWorkers : WF_vars(w \in Handles /\ worker_written(w))
  /\ \A w \in 1..StreamWorkers : WF_vars(w \in Handles /\ worker_exit(w))
  /\ WF_vars(emit_running)

----------------------------------------------------------------------------
\* Observations used by the properties

ManagerUnchanged == UNCHANGED <<process, loaded, models>>
NothingSpawnedOrEmitted == UNCHANGED <<children, events, inflight>>

IsStatus(e, w, running) ==
  e.ev = "model-status" /\ e.w = w /\ e.payload.running = running

IsOutput(e, w, prefix) ==
  e.ev = "model-output" /\ e.w = w /\ e.payload.prefix = prefix

\* Positions in events of the {running: false} notifications of worker w.
Stops(w) == {i \in DOMAIN events : IsStatus(events[i], w, FALSE)}

\* Positions in events of the notifications for line k of a stream of w.
Reports(w, prefix, k) ==
  {i \in DOMAIN events : IsOutput(events[i], w, prefix) /\ events[i].payload.line = k}

----------------------------------------------------------------------------
\* Properties

\* C1: a process is spawned, and a handle is put in the worker slot, only
\* in a step that starts with the slot empty; so the slot never goes from
\* one handle to another and no spawn happens while it is occupied.
C1_SingleProcess ==
  [][ /\ Len(children') > Len(children) => process = NoChild
      /\ (process' # process /\ process' # NoChild) => process = NoChild ]_vars

\* C1 witness: a second worker was spawned into the slot after the first
\* had been taken out of it.
C1_Witness == Len(children) = 2 /\ process = 2

\* C2: start_model(id) with a worker in the slot returns AlreadyRunning for
\* every id, known or unknown, changes neither slot, loaded id nor catalog,
\* spawns nothing and emits nothing.
C2_StartWhileRunning ==
  [][ \A id \in IdInputs :
        (process # NoChild /\ start_model(id)) =>
          /\ ret' = Result("start_model", "AlreadyRunning")
          /\ ManagerUnchanged
          /\ NothingSpawnedOrEmitted ]_vars

\* C2 witness: a start was rejected with AlreadyRunning while a worker was
\* in the slot.
C2_Witness ==
  /\ ret = Result("start_model", "AlreadyRunning")
  /\ process # NoChild

\* C3: once the reader thread of a worker has seen both streams closed and
\* has finished, that worker is no longer in the slot, so a following
\* start_model is not rejected with AlreadyRunning.
C3_ReaderClearsSlot ==
  \A w \in Handles : children[w].reader = "done" => process # w

\* C4: after stop_model has returned success the slot is empty, and a
\* start_model(id) that follows, for any catalogued id, is not rejected:
\* it fails only if the OS spawn fails, otherwise it puts a worker in the
\* slot and returns success, whatever the previous reader thread is doing.
C4_StartAfterStop ==
  [][ ret = Result("stop_model", "Ok") =>
        /\ inflight = None => process = NoChild
        /\ \A id \in DOMAIN models :
             start_model(id) =>
               \/ ret' = Result("start_model", "SpawnFailed")
               \/ /\ process' # NoChild
                  /\ inflight' = "start_model"
                  /\ ret' = ret
        /\ (inflight = "start_model" /\ emit_running) =>
             /\ ret' = Result("start_model", "Ok")
             /\ process' # NoChild ]_vars

\* C4 witness: a start succeeded while the reader thread of the worker
\* that stop_model killed had not finished yet.
C4_Witness ==
  /\ ret = Result("start_model", "Ok")
  /\ process = 2
  /\ children[1].status = "killed"
  /\ children[1].reader # "done"

\* C5: run_prompt with a worker in the slot writes the prompt to the
\* worker's input pipe and returns success or a write error, whatever the
\* model argument; it never returns AlreadyRunning or NoModelAvailable.
C5_RunPromptSends ==
  [][ \A p \in Prompts, m \in IdInputs \cup {None} :
        (process # NoChild /\ run_prompt(p, m)) =>
          /\ ret'.cmd = "run_prompt"
          /\ ret'.res \in {"Sent", "WriteFailed"}
          /\ ret'.res = "Sent" =>
               children'[process].stdin.buf = Append(children[process].stdin.buf, p)
          /\ Len(children') = Len(children) ]_vars

\* C6, safety part: for every worker, {running: false} is emitted at most
\* once, only by a reader thread that has finished, only when the worker
\* has ended, and every line the worker wrote to either stream was
\* reported before it; a finished reader thread has emitted it.
C6_Safety ==
  \A w \in Handles :
    /\ Cardinality(Stops(w)) <= 1
    /\ children[w].reader = "done" <=> Stops(w) # {}
    /\ \A i \in Stops(w) :
         /\ ~alive(children[w])
         /\ \A k \in 1..children[w].nout :
              \E j \in Reports(w, "", k) : j < i
         /\ \A k \in 1..children[w].nerr :
              \E j \in Reports(w, "[ERR] ", k) : j < i

C7_Safety ==
  \A w \in Handles : \A prefix \in {"", "[ERR] "} :
    /\ \A k \in 1..MaxLines + 1 :
         /\ Cardinality(Reports(w, prefix, k)) <= 1
         /\ Reports(w, prefix, k) # {} =>
              k <= (IF prefix = "" THEN children[w].nout ELSE children[w].nerr)
    /\ \A i, j \in DOMAIN events :
         (i < j /\ IsOutput(events[i], w, prefix) /\ IsOutput(events[j], w, prefix))
           => events[i].payload.line < events[j].payload.line

\* C7: every line a worker writes to its standard-output or error stream
\* eventually results in exactly one output-line notification (error
\* lines with the "[ERR] " prefix), in per-stream order, for every
\* interleaving of the writes and with pipes of bounded capacity.
C7_EveryLineReported ==
  /\ []C7_Safety
  /\ \A w \in 1..StreamWorkers : \A k \in 1..MaxLines :
       /\ (w \in Handles /\ children[w].nout >= k) ~> (Reports(w, "", k) # {})
       /\ (w \in Handles /\ children[w].nerr >= k) ~> (Reports(w, "[ERR] ", k) # {})

\* C8: stop_model with an empty slot returns NotRunning and changes
\* neither slot, loaded id nor catalog.
C8_StopWhileIdle ==
  [][ (process = NoChild /\ stop_model) =>
        /\ ret' = Result("stop_model", "NotRunning")
        /\ ManagerUnchanged
        /\ NothingSpawnedOrEmitted ]_vars

\* C8 witness: a stop was rejected with NotRunning.
C8_Witness ==
  /\ ret = Result("stop_model", "NotRunning")
  /\ process = NoChild

\* C9: run_prompt(text, none) with an empty slot and no loaded id fails
\* with NoModelAvailable, spawns nothing, emits nothing and changes
\* nothing of the manager.
C9_NoModelAvailable ==
  [][ \A p \in Prompts :
        (process = NoChild /\ loaded = None /\ run_prompt(p, None)) =>
          /\ ret' = Result("run_prompt", "NoModelAvailable")
          /\ ManagerUnchanged
          /\ NothingSpawnedOrEmitted ]_vars

\* C9 witness: a run_prompt failed with NoModelAvailable on an idle
\* manager with no loaded id.
C9_Witness ==
  /\ ret = Result("run_prompt", "NoModelAvailable")
  /\ process = NoChild
  /\ loaded = None

\* C10: a start_model from an empty slot that succeeds puts a worker in
\* the slot and changes neither the loaded id nor the catalog, in the step
\* that spawns and in the step that returns success.
C10_StartKeepsLoaded ==
  [][ /\ \A id \in IdInputs :
           (process = NoChild /\ start_model(id)) =>
             /\ loaded' = loaded
             /\ models' = models
             /\ inflight' = "start_model" => process' # NoChild
      /\ (inflight = "start_model" /\ emit_running) =>
           /\ ret' = Result("start_model", "Ok")
           /\ process' # NoChild
           /\ loaded' = loaded
           /\ models' = models ]_vars

\* C10 witness: start_model returned success, a worker is in the slot and
\* no model id is recorded as loaded.
C10_Witness ==
  /\ ret = Result("start_model", "Ok")
  /\ process # NoChild
  /\ loaded = None

\* C11: a start_model from an empty slot that fails leaves the manager
\* idle: an unknown id is rejected with NotFound, and with NotFound or a
\* failed OS spawn the slot stays empty, no process and no reader thread
\* exist that did not before, nothing is emitted, and loaded id and
\* catalog are unchanged.
C11_FailedStartLeavesIdle ==
  [][ \A id \in IdInputs :
        (process = NoChild /\ start_model(id)) =>
          /\ id \notin DOMAIN models => ret' = Result("start_model", "NotFound")
          /\ inflight' = None =>
               /\ ret'.cmd = "start_model"
               /\ ret'.res \in {"NotFound", "SpawnFailed"}
               /\ process' = NoChild
               /\ ManagerUnchanged
               /\ NothingSpawnedOrEmitted ]_vars

\* C11 witness: a start failed in the OS spawn and the slot is empty.
C11_Witness ==
  /\ ret = Result("start_model", "SpawnFailed")
  /\ process = NoChild
  /\ inflight = None

\* C12: load_model(id) returns success and changes bookkeeping only: the
\* slot, the processes, the notifications and the command in progress stay
\* as they are; for an id that is not in the catalog the loaded id and the
\* catalog stay as they are too.
C12_LoadOnlyBookkeeping ==
  [][ \A id \in IdInputs :
        load_model(id) =>
          /\ ret' = Result("load_model", "Ok")
          /\ process' = process
          /\ NothingSpawnedOrEmitted
          /\ id \notin DOMAIN models => (loaded' = loaded /\ models' = models)
          /\ id \in DOMAIN models =>
               /\ loaded' = id
               /\ DOMAIN models' = DOMAIN models
               /\ \A x \in DOMAIN models :
                    [models'[x] EXCEPT !.loaded = FALSE] = [models[x] EXCEPT !.loaded = FALSE] ]_vars

\* C12 witness: load_model returned success for an unknown id (no id is
\* recorded as loaded) while a worker was in the slot.
C12_Witness ==
  /\ ret = Result("load_model", "Ok")
  /\ loaded = None
  /\ process # NoChild

\* C13: with the directory unchanged, rescan_models yields a catalog
\* snapshot identical to the one held before it (same ids, names, paths
\* and loaded flags), whatever commands ran before.
C13_RescanIdempotent ==
  [][ rescan_models => models' = models ]_vars

\* C14: at every moment at most one process spawned by the manager is
\* alive (spawned and not yet ended).
C14_AtMostOneAlive ==
  Cardinality({w \in Handles : alive(children[w])}) <= 1

\* C15: a start_model(id) that succeeds records id as the loaded model
\* id, so that a later run_prompt(text, none) with the slot empty starts
\* it instead of failing with NoModelAvailable.
C15_StartRecordsLoaded ==
  [][ /\ \A id \in IdInputs :
           (process = NoChild /\ start_model(id) /\ inflight' = "start_model") =>
             loaded' = id
      /\ \A p \in Prompts :
           (process = NoChild /\ Len(children) > 0 /\ run_prompt(p, None)) =>
             ret'.res # "NoModelAvailable" ]_vars

\* C15 as amended: a start_model(id) that succeeds records nothing as
\* loaded; while no load_model has recorded an id, a run_prompt(text,
\* none) that finds the slot empty after a start and a stop fails with
\* NoModelAvailable and starts nothing.
C15_StartRecordsNothing ==
  [][ /\ \A id \in IdInputs :
           (process = NoChild /\ loaded = None /\ start_model(id)) =>
             loaded' = None
      /\ (loaded = None /\ emit_running) => loaded' = None
      /\ \A p \in Prompts :
           (process = NoChild /\ loaded = None /\ Len(children) > 0 /\ run_prompt(p, None)) =>
             /\ ret' = Result("run_prompt", "NoModelAvailable")
             /\ ManagerUnchanged
             /\ NothingSpawnedOrEmitted ]_vars

\* C15 witness: after a start that succeeded and a stop that killed the
\* worker, run_prompt(text, none) failed with NoModelAvailable.
C15_Witness ==
  /\ ret = Result("run_prompt", "NoModelAvailable")
  /\ process = NoChild
  /\ loaded = None
  /\ Len(children) = 1
  /\ children[1].status = "killed"

\* C16: run_prompt(text, model) with the slot empty takes the step that
\* spawn_for_model takes for the override if one is given (also when an
\* id is loaded, also when the override is unknown), otherwise for the
\* loaded id, and fails with NoModelAvailable when there is neither; the
\* prompt is not written to the input of a worker it starts.
C16_RunPromptStarts ==
  [][ \A p \in Prompts, m \in IdInputs \cup {None} :
        (process = NoChild /\ run_prompt(p, m)) =>
          /\ m # None => spawn_for_model("run_prompt", m)
          /\ (m = None /\ loaded # None) => spawn_for_model("run_prompt", loaded)
          /\ (m = None /\ loaded = None) => ret' = Result("run_prompt", "NoModelAvailable")
          /\ process' # NoChild =>
               /\ Len(children') = Len(children) + 1
               /\ children'[process'].stdin.buf = <<>> ]_vars

\* C16 witness: run_prompt started a worker while an id was recorded as
\* loaded, and the worker's input holds no prompt.
C16_Witness ==
  /\ ret = Result("run_prompt", "Ok")
  /\ process # NoChild
  /\ loaded # None
  /\ children[process].stdin.buf = <<>>

\* C17: stop_model with a worker in the slot leaves the slot empty when it
\* returns, with success or with the termination error; a stop_model that
\* leaves the slot as it was is the one rejected with NotRunning.
C17_StopClearsSlot ==
  [][ stop_model =>
        /\ process # NoChild =>
             /\ process' = NoChild
             /\ ret'.cmd = "stop_model"
             /\ ret'.res \in {"Ok", "KillFailed"}
        /\ process' = process => ret' = Result("stop_model", "NotRunning") ]_vars

\* C17 witness: stop_model returned the termination error and the slot is
\* empty while the process is still alive.
C17_Witness ==
  /\ ret = Result("stop_model", "KillFailed")
  /\ process = NoChild
  /\ \E w \in Handles : alive(children[w])

\* C18: for each worker, its {running: true} notification is emitted
\* before its {running: false} notification, whatever the interleaving of
\* the starting command and the reader thread.
C18_RunningBeforeStopped ==
  \A w \in Handles : \A i \in Stops(w) :
    \E j \in DOMAIN events : j < i /\ IsStatus(events[j], w, TRUE)

\* Positions in events of the run-state notifications.
StatusPositions == {i \in DOMAIN events : events[i].ev = "model-status"}

\* No command is between its spawn and its return and every reader thread
\* has finished.
Quiescent ==
  /\ inflight = None
  /\ \A w \in Handles : children[w].reader = "done"

\* C19: once all commands have returned and all reader threads have
\* finished, the last run-state notification has running = true exactly
\* when the worker slot is occupied; and the {running: false} of an earlier
\* worker is never emitted after the {running: true} of a later worker.
C19_LastStatusAgrees ==
  /\ (Quiescent /\ StatusPositions # {}) =>
       LET last == CHOOSE i \in StatusPositions :
                     \A j \in StatusPositions : j <= i
       IN  events[last].payload.running <=> (process # NoChild)
  /\ \A w1 \in Handles, w2 \in Handles :
       w1 < w2 =>
         \A i \in Stops(w1) :
           \A j \in DOMAIN events : IsStatus(events[j], w2, TRUE) => i < j

\* C20: after every sequence of load_model and rescan_models calls at most
\* one catalog record has loaded = true, and the manager's loaded id is
\* Some(id) exactly when the catalog holds a record for id whose loaded
\* flag is true.
C20_LoadedConsistent ==
  /\ Cardinality({id \in DOMAIN models : models[id].loaded}) <= 1
  /\ \A id \in IdInputs :
       (loaded = id) <=> (id \in DOMAIN models /\ models[id].loaded)

====
